---- MODULE Spec2Model ----
(***************************************************************************)
(* The mpv control subsystem of invidtui: the Connector facade over the    *)
(* mpvipc transport (lib/mpv_player.go), the playback monitor, the event   *)
(* listener, MPVConnect's retry loop and the UI's lifecycle watcher        *)
(* (ui/ui.go).  Every goroutine is a process with its own program counter; *)
(* a Connector primitive (Call/Get/Set) is two steps, the IsClosed check   *)
(* and the transport call, so that other goroutines interleave with it.    *)
(* A section guarded by monitorMutex is one atomic step.                   *)
(***************************************************************************)
EXTENDS Integers, Sequences, FiniteSets, TLC

\* ------------------------------------------------------------- bounds
\* Loads (loadfile/loadlist that the player accepts) in one run.
MaxLoads == 2
\* Capacity of mpvInfoChan and mpvErrorChan.  The program makes both with
\* capacity 100 (mpv_player.go:63-64); the model scales the capacity down.
ChanCap == 1
\* Events the transport holds for the listener at one time.
MaxEvents == 2
\* Socket-file removals counted for one goroutine; MPVStop is not started
\* beyond it.
MaxRemovals == 1
\* Feed calls in one run.
MaxFeeds == 3
\* The largest retry budget (*connretries) MPVConnect is given.
MaxRetries == 3
\* quit commands that reach the transport in one run; MPVStop is not started
\* beyond it.
MaxQuits == 2

Titles == {"Song A", "Song B"}
PlaylistEntry == "playlist entry"
\* The playlist file LoadPlaylist is given (plpath).
PlPath == "list.m3u"
\* The value Go yields for a receive from a closed chan int.
ZeroId == 0
\* An event whose ExtraData holds no playlist_entry_id.
NoId == -1
\* file_error values of an end-file event: absent, empty, non-empty.
NoErr == "nil"
FileErrors == {NoErr, "", "loading failed"}

\* ------------------------------------------------------------- state
VARIABLES
  closed,        \* c.conn.IsClosed()
  player,        \* the mpv process: "running", "exiting" (quit taken), "exited"
  streamEnd,     \* the transport closed the events channel
  events,        \* events delivered by the transport, not yet received
  entries,       \* player: title of each playlist entry, by playlist_entry_id
  pending,       \* player: ids of the entries not yet started
  playing,       \* player: id of the entry being played, 0 if none
  loopFile,      \* player property loop-file
  loopPlaylist,  \* player property loop-playlist
  loop,          \* var loop (mpv_player.go:20)
  monitorMap,    \* var monitorMap
  mpvInfoChan,   \* var mpvInfoChan (buffered)
  mpvErrorChan,  \* var mpvErrorChan (buffered)
  chanClosed,    \* which of MPVErrors, mpvInfoChan, mpvErrorChan are closed
  lis,           \* the eventListener goroutine: [pc, id]
  mon,           \* the monitorStart goroutine: [pc, id, title]
  consumer,      \* the UI goroutine receiving from MPVErrors
  received,      \* what the consumer received: <<id, title>> (id is a ghost)
  thr,           \* the goroutines calling the Connector, one record each
  panicked,      \* a goroutine panicked: the process is gone
  ui,            \* ui.go: detectClose, and counts of what StopUI and the watcher did
  mc,            \* MPVConnect: its inputs, loop index and counts
  feedPage,      \* var feedPage (feed.go:28)
  feed,          \* the goroutines calling Client.Feed: [pc, getmore, page]
  requests,      \* the feed requests made, in order: [getmore, query]
  hist           \* ghost: what the claims need of the run's history

connVars == <<closed, player, streamEnd, events>>
playerVars == <<entries, pending, playing, loopFile, loopPlaylist>>
monVars == <<monitorMap, mpvInfoChan, mpvErrorChan, chanClosed>>
procVars == <<lis, mon, consumer, received>>
feedVars == <<feedPage, feed, requests>>
vars == <<closed, player, streamEnd, events, entries, pending, playing,
          loopFile, loopPlaylist, loop, monitorMap, mpvInfoChan, mpvErrorChan,
          chanClosed, lis, mon, consumer, received, thr, panicked, ui, mc,
          feedPage, feed, requests, hist>>

Threads == {"ui", "watcher"}

\* A goroutine outside any Connector operation.
IdleThread ==
  [pc |-> "idle", frame |-> "", phase |-> "none", kind |-> "", cmd |-> "",
   val |-> "", err |-> FALSE, rv |-> "", title |-> "", flag |-> FALSE,
   eof |-> "", paused |-> "", id |-> 0, rm |-> FALSE, x |-> "", issued |-> <<>>, tsent |-> <<>>,
   startedClosed |-> FALSE, result |-> ""]

Range(s) == {s[i] : i \in DOMAIN s}
\* ------------------------------------------------- the mpvipc transport
\* The player answers only while it runs and the connection is open; a call
\* on a closed connection or to a dead player returns an error.
Alive == player = "running" /\ ~closed

BoolProps == {"pause", "shuffle", "eof-reached", "core-idle"}
NumProps == {"playback-time", "duration", "playlist-count", "playlist-playing-pos"}

\* Commands mpv may answer with an error although the connection is open: a
\* property that is unavailable, a file or list it cannot load, a seek with
\* nothing loaded.  Setting loop-file, loop-playlist or pause to yes/no,
\* cycling a flag, clearing the playlist and quitting are always accepted.
CanFail(kind, cmd) ==
  \/ kind = "Get"
  \/ cmd \in {"loadfile", "loadlist", "seek", "seek 0 absolute-percent",
              "get_property_string loop-file",
              "get_property_string loop-playlist",
              "get_property_string playlist",
              "get_property_string playlist/N/title",
              "get_property_string playlist/N/filename",
              "playlist-remove", "playlist-move", "playlist-next",
              "playlist-prev"}
  \/ kind = "Set" /\ cmd = "playlist-pos"

\* What a successful call may return.
Values(kind, cmd) ==
  CASE kind = "Get" /\ cmd \in BoolProps -> {"true", "false"}
    [] kind = "Get" /\ cmd \in NumProps -> {"0", "2"}
    [] kind = "Get" /\ cmd = "options/length" -> {"180", "abc"}
    [] kind = "Get" /\ cmd = "height" -> {"720"}
    [] cmd = "get_property_string loop-file" -> {loopFile}
    [] cmd = "get_property_string loop-playlist" -> {loopPlaylist}
    [] cmd = "get_property_string playlist" -> {"[]"}
    [] cmd = "get_property_string playlist/N/title" -> {"a title"}
    [] cmd = "get_property_string playlist/N/filename" -> {"a.m4a"}
    [] OTHER -> {"ok"}

\* What a successful call does to the player.
Effect(th) ==
  LET newid == Len(entries) + 1 IN
  /\ entries' = CASE th.cmd = "loadfile" -> Append(entries, th.title)
                  [] th.cmd = "loadlist" -> Append(entries, PlaylistEntry)
                  [] OTHER -> entries
  /\ pending' = CASE th.cmd = "loadfile" -> Append(pending, newid)
                  [] th.cmd = "loadlist" ->
                       IF th.val = "replace" THEN <<newid>>
                       ELSE Append(pending, newid)
                  [] th.cmd = "playlist-clear" -> <<>>
                  [] OTHER -> pending
  /\ loopFile' = IF th.kind = "Set" /\ th.cmd = "loop-file"
                 THEN th.val ELSE loopFile
  /\ loopPlaylist' = IF th.kind = "Set" /\ th.cmd = "loop-playlist"
                     THEN th.val ELSE loopPlaylist
  /\ player' = IF th.cmd = "quit" THEN "exiting" ELSE player
  /\ UNCHANGED playing

\* ------------------------------------- Connector.Call / Get / Set
\* An operation asks for a primitive and names the label it goes on at.
Request(th, kind, cmd, val, next) ==
  [th EXCEPT !.phase = "check", !.kind = kind, !.cmd = cmd, !.val = val,
             !.pc = next, !.issued = Append(@, cmd)]

\* The primitive without its guard: it goes to the transport whatever the
\* connection's state.
ClosedCheckNone(isClosed, th) == [th EXCEPT !.phase = "send"]

\* if c.IsClosed() { return nil, fmt.Errorf("Connection closed") }
ClosedCheck(isClosed, th) ==
  IF isClosed
  THEN [th EXCEPT !.phase = "ret", !.err = TRUE, !.rv = "Connection closed"]
  ELSE [th EXCEPT !.phase = "send"]

PrimCheck(t) ==
  /\ ~panicked
  /\ thr[t].phase = "check"
  /\ thr' = [thr EXCEPT ![t] = ClosedCheck(closed, thr[t])]
  /\ UNCHANGED <<connVars, playerVars, loop, monVars, procVars, panicked, ui, mc, feedVars, hist>>

\* value, err := c.conn.Call(args...) (or Get, or Set)
PrimSend(t) ==
  /\ ~panicked
  /\ thr[t].phase = "send"
  /\ LET th == [thr[t] EXCEPT !.tsent = Append(@, thr[t].cmd)] IN
     /\ hist' = [hist EXCEPT !.lateCall = @ \/ closed,
                             !.quits = @ + (IF th.cmd = "quit" THEN 1 ELSE 0)]
     /\ \/ /\ ~Alive \/ CanFail(th.kind, th.cmd)
           /\ thr' = [thr EXCEPT ![t] =
                        [th EXCEPT !.phase = "ret", !.err = TRUE, !.rv = "error"]]
           /\ UNCHANGED <<playerVars, player>>
        \/ /\ Alive
           /\ \E v \in Values(th.kind, th.cmd) :
                thr' = [thr EXCEPT ![t] =
                          [th EXCEPT !.phase = "ret", !.err = FALSE, !.rv = v]]
           /\ Effect(th)
  /\ UNCHANGED <<closed, streamEnd, events, loop, monVars, procVars, panicked, ui, mc, feedVars>>
\* ------------------------------------------- Connector operations
\* A goroutine enters operation o: it remembers whether the connection was
\* already closed, and its logs start empty.
Enter(o) == [IdleThread EXCEPT !.frame = o, !.startedClosed = closed]

\* The operation returns res; the goroutine rests at "done" until Return.
\* Of its locals only what it was called with, what it logged and what its
\* queries answered are kept.
Finish(th, res) ==
  [IdleThread EXCEPT !.pc = "done", !.frame = th.frame, !.result = res,
                     !.title = th.title, !.flag = th.flag, !.eof = th.eof,
                     !.paused = th.paused, !.x = th.x, !.issued = th.issued,
                     !.tsent = th.tsent, !.startedClosed = th.startedClosed,
                     !.rm = th.rm]

\* A step of goroutine t that touches nothing but t's own record (and the
\* ghost history, which becomes h).
LocalH(t, th, h) ==
  /\ thr' = [thr EXCEPT ![t] = th]
  /\ hist' = h
  /\ UNCHANGED <<connVars, playerVars, loop, monVars, procVars, panicked, ui, mc, feedVars>>

Local(t, th) == LocalH(t, th, hist)

\* Starting an operation.
CanStart(t) == ~panicked /\ thr[t].pc = "idle"

StartH(t, th, h) ==
  /\ CanStart(t)
  /\ thr' = [thr EXCEPT ![t] = th]
  /\ hist' = h
  /\ UNCHANGED <<connVars, playerVars, loop, monVars, procVars, panicked,
                 ui, mc, feedVars>>

Start(t, th) == StartH(t, th, hist)

\* At label pc with the primitive's result in hand.
At(t, pc) == ~panicked /\ thr[t].pc = pc /\ thr[t].phase = "ret"

Return(t) ==
  /\ ~panicked
  /\ thr[t].pc = "done"
  /\ Local(t, IdleThread)

\* The operations that are one primitive: the primitive, what the operation
\* returns when it errs (onErr), and what it returns otherwise (onOk; "rv" is
\* the value the primitive returned).  A mutator returns nothing ("").
OneCallOps == {"Call", "Get", "Set", "IsPaused", "IsShuffle", "IsEOF",
               "IsIdle", "MediaType", "TimePosition", "PlaylistData",
               "PlaylistCount", "PlaylistPos", "SetPlaylistPos",
               "PlaylistDelete", "PlaylistMove", "CycleShuffle", "Play",
               "Stop", "SeekForward", "SeekBackward", "Next", "Prev"}

OneCall(o) ==
  CASE o = "Call" -> [kind |-> "Call", cmd |-> "keybind", val |-> "", onErr |-> "err", onOk |-> "rv"]
    [] o = "Get" -> [kind |-> "Get", cmd |-> "core-idle", val |-> "", onErr |-> "err", onOk |-> "rv"]
    [] o = "Set" -> [kind |-> "Set", cmd |-> "pause", val |-> "yes", onErr |-> "err", onOk |-> "nil"]
    [] o = "IsPaused" -> [kind |-> "Get", cmd |-> "pause", val |-> "", onErr |-> "false", onOk |-> "rv"]
    [] o = "IsShuffle" -> [kind |-> "Get", cmd |-> "shuffle", val |-> "", onErr |-> "false", onOk |-> "rv"]
    [] o = "IsEOF" -> [kind |-> "Get", cmd |-> "eof-reached", val |-> "", onErr |-> "false", onOk |-> "rv"]
    [] o = "IsIdle" -> [kind |-> "Get", cmd |-> "core-idle", val |-> "", onErr |-> "false", onOk |-> "rv"]
    [] o = "MediaType" -> [kind |-> "Get", cmd |-> "height", val |-> "", onErr |-> "Audio", onOk |-> "Video"]
    [] o = "TimePosition" -> [kind |-> "Get", cmd |-> "playback-time", val |-> "", onErr |-> "0", onOk |-> "rv"]
    [] o = "PlaylistData" -> [kind |-> "Call", cmd |-> "get_property_string playlist", val |-> "", onErr |-> "", onOk |-> "rv"]
    [] o = "PlaylistCount" -> [kind |-> "Get", cmd |-> "playlist-count", val |-> "", onErr |-> "0", onOk |-> "rv"]
    [] o = "PlaylistPos" -> [kind |-> "Get", cmd |-> "playlist-playing-pos", val |-> "", onErr |-> "0", onOk |-> "rv"]
    [] o = "SetPlaylistPos" -> [kind |-> "Set", cmd |-> "playlist-pos", val |-> "1", onErr |-> "", onOk |-> ""]
    [] o = "PlaylistDelete" -> [kind |-> "Call", cmd |-> "playlist-remove", val |-> "", onErr |-> "", onOk |-> ""]
    [] o = "PlaylistMove" -> [kind |-> "Call", cmd |-> "playlist-move", val |-> "", onErr |-> "", onOk |-> ""]
    [] o = "CycleShuffle" -> [kind |-> "Call", cmd |-> "cycle shuffle", val |-> "", onErr |-> "", onOk |-> ""]
    [] o = "Play" -> [kind |-> "Set", cmd |-> "pause", val |-> "no", onErr |-> "", onOk |-> ""]
    [] o = "Stop" -> [kind |-> "Call", cmd |-> "stop", val |-> "", onErr |-> "", onOk |-> ""]
    [] o = "SeekForward" -> [kind |-> "Call", cmd |-> "seek", val |-> "1", onErr |-> "", onOk |-> ""]
    [] o = "SeekBackward" -> [kind |-> "Call", cmd |-> "seek", val |-> "-1", onErr |-> "", onOk |-> ""]
    [] o = "Next" -> [kind |-> "Call", cmd |-> "playlist-next", val |-> "", onErr |-> "", onOk |-> ""]
    [] o = "Prev" -> [kind |-> "Call", cmd |-> "playlist-prev", val |-> "", onErr |-> "", onOk |-> ""]

OneCallBegin(t, o) ==
  LET c == OneCall(o) IN
  Start(t, Request(Enter(o), c.kind, c.cmd, c.val, "OneCall_ret"))

\* What the operation makes of the primitive's result.
OneCallResult(o, th) ==
  LET c == OneCall(o) IN
  IF th.err THEN (IF c.onErr = "err" THEN th.rv ELSE c.onErr)
  ELSE (IF c.onOk = "rv" THEN th.rv ELSE c.onOk)

OneCallRet(t) ==
  /\ At(t, "OneCall_ret")
  /\ Local(t, Finish(thr[t], OneCallResult(thr[t].frame, thr[t])))
\* LoopType: two get_property_string calls, "" when either errs.
LoopTypeBegin(t) ==
  Start(t, Request(Enter("LoopType"), "Call",
                   "get_property_string loop-file", "", "LoopType_lf"))

LoopTypeLf(t) ==
  /\ At(t, "LoopType_lf")
  /\ Local(t, IF thr[t].err THEN Finish(thr[t], "")
              ELSE Request([thr[t] EXCEPT !.x = thr[t].rv], "Call",
                           "get_property_string loop-playlist", "",
                           "LoopType_lp"))

LoopTypeOf(lf, lp) ==
  IF lf \in {"yes", "inf"} THEN "R-F"
  ELSE IF lp \in {"yes", "inf"} THEN "R-P" ELSE ""

LoopTypeLp(t) ==
  /\ At(t, "LoopType_lp")
  /\ Local(t, Finish(thr[t], IF thr[t].err THEN ""
                             ELSE LoopTypeOf(thr[t].x, thr[t].rv)))

\* strconv.Atoi on the strings options/length may hold.
Atoi(str) == IF str \in {"0", "2", "180", "720"} THEN str ELSE "0"

\* Duration: "duration", else "options/length" parsed, else 0.
DurationBegin(t) ==
  Start(t, Request(Enter("Duration"), "Get", "duration", "", "Duration_1"))

Duration1(t) ==
  /\ At(t, "Duration_1")
  /\ Local(t, IF thr[t].err
              THEN Request(thr[t], "Get", "options/length", "", "Duration_2")
              ELSE Finish(thr[t], thr[t].rv))

Duration2(t) ==
  /\ At(t, "Duration_2")
  /\ Local(t, Finish(thr[t], IF thr[t].err THEN "0" ELSE Atoi(thr[t].rv)))

\* PlaylistTitle: the title, else the filename, else "-".  The code tests the
\* value for nil and drops err; Connector.Call returns a nil value exactly
\* when it returns an error.
PlaylistTitleBegin(t) ==
  Start(t, Request(Enter("PlaylistTitle"), "Call",
                   "get_property_string playlist/N/title", "",
                   "PlaylistTitle_1"))

PlaylistTitle1(t) ==
  /\ At(t, "PlaylistTitle_1")
  /\ Local(t, IF thr[t].err
              THEN Request(thr[t], "Call",
                           "get_property_string playlist/N/filename", "",
                           "PlaylistTitle_2")
              ELSE Finish(thr[t], thr[t].rv))

PlaylistTitle2(t) ==
  /\ At(t, "PlaylistTitle_2")
  /\ Local(t, Finish(thr[t], IF thr[t].err THEN "-" ELSE thr[t].rv))

\* PlaylistPlayLatest: c.Set("playlist-pos", c.PlaylistCount()-1); c.Play()
PlaylistPlayLatestBegin(t) ==
  Start(t, Request(Enter("PlaylistPlayLatest"), "Get", "playlist-count", "",
                   "PlayLatest_count"))

PlayLatestCount(t) ==
  /\ At(t, "PlayLatest_count")
  /\ Local(t, Request(thr[t], "Set", "playlist-pos",
                      IF thr[t].err \/ thr[t].rv = "0" THEN "-1" ELSE "1",
                      "PlayLatest_play"))

PlayLatestPlay(t) ==
  /\ At(t, "PlayLatest_play")
  /\ Local(t, Request(thr[t], "Set", "pause", "no", "PlayLatest_ret"))

PlayLatestRet(t) ==
  /\ At(t, "PlayLatest_ret")
  /\ Local(t, Finish(thr[t], ""))

\* CyclePaused: if c.IsEOF() && c.IsPaused() { seek }; cycle pause.
\* IsPaused is not asked when IsEOF is false (&& short-circuits).
CyclePausedBegin(t) ==
  Start(t, Request(Enter("CyclePaused"), "Get", "eof-reached", "",
                   "CyclePaused_eof"))

SeekToStart == "seek 0 absolute-percent"
TogglePause == "cycle pause"

CyclePausedEof(t) ==
  /\ At(t, "CyclePaused_eof")
  /\ LET th == [thr[t] EXCEPT !.eof = IF thr[t].err THEN "false" ELSE thr[t].rv]
     IN Local(t, IF th.eof = "true"
                 THEN Request(th, "Get", "pause", "", "CyclePaused_paused")
                 ELSE Request(th, "Call", TogglePause, "", "CyclePaused_ret"))

\* The condition of the seek, once both queries have answered.
ShouldSeekOr(eof, paused) == eof = "true" \/ paused = "true"
ShouldSeek(eof, paused) == eof = "true" /\ paused = "true"

CyclePausedPaused(t) ==
  /\ At(t, "CyclePaused_paused")
  /\ LET th == [thr[t] EXCEPT !.paused = IF thr[t].err THEN "false" ELSE thr[t].rv]
     IN Local(t, IF ShouldSeek(th.eof, th.paused)
                 THEN Request(th, "Call", SeekToStart, "", "CyclePaused_seek")
                 ELSE Request(th, "Call", TogglePause, "", "CyclePaused_ret"))

CyclePausedSeek(t) ==
  /\ At(t, "CyclePaused_seek")
  /\ Local(t, Request(thr[t], "Call", TogglePause, "", "CyclePaused_ret"))

CyclePausedRet(t) ==
  /\ At(t, "CyclePaused_ret")
  /\ Local(t, Finish(thr[t], ""))
\* CycleLoop: the case of the switch taken for loop = l: the next value of
\* loop and the two property writes, in the order the code makes them.
CycleLoopCaseSwapped(l) ==
  CASE l = "" -> [next |-> "loop-file", w1 |-> <<"loop-file", "yes">>,
                  w2 |-> <<"loop-playlist", "no">>]
    [] l = "loop-file" -> [next |-> "loop-playlist",
                           w1 |-> <<"loop-playlist", "yes">>,
                           w2 |-> <<"loop-file", "no">>]
    [] l = "loop-playlist" -> [next |-> "", w1 |-> <<"loop-file", "no">>,
                               w2 |-> <<"loop-playlist", "no">>]

CycleLoopCase(l) ==
  CASE l = "" -> [next |-> "loop-file", w1 |-> <<"loop-file", "yes">>,
                  w2 |-> <<"loop-playlist", "no">>]
    [] l = "loop-file" -> [next |-> "loop-playlist",
                           w1 |-> <<"loop-file", "no">>,
                           w2 |-> <<"loop-playlist", "yes">>]
    [] l = "loop-playlist" -> [next |-> "", w1 |-> <<"loop-file", "no">>,
                               w2 |-> <<"loop-playlist", "no">>]

CycleLoopBegin(t) ==
  /\ CanStart(t)
  /\ LET c == CycleLoopCase(loop) IN
     /\ loop' = c.next
     /\ thr' = [thr EXCEPT ![t] =
                  Request([Enter("CycleLoop") EXCEPT !.x = loop], "Set",
                          c.w1[1], c.w1[2], "CycleLoop_2")]
  /\ UNCHANGED <<connVars, playerVars, monVars, procVars, panicked, ui, mc, feedVars,
                 hist>>

CycleLoop2(t) ==
  /\ At(t, "CycleLoop_2")
  /\ LET c == CycleLoopCase(thr[t].x) IN
     Local(t, Request([thr[t] EXCEPT !.flag = thr[t].err], "Set",
                      c.w2[1], c.w2[2], "CycleLoop_ret"))

CycleLoopRet(t) ==
  /\ At(t, "CycleLoop_ret")
  /\ Local(t, Finish([thr[t] EXCEPT !.flag = @ \/ thr[t].err], ""))

\* ------------------------------------------------ the monitor's map
EmptyMap == [i \in {} |-> ""]
MapPut(m, id, name) ==
  [i \in DOMAIN m \cup {id} |-> IF i = id THEN name ELSE m[i]]
MapDelete(m, id) == [i \in DOMAIN m \ {id} |-> m[i]]
MapGet(m, id) == IF id \in DOMAIN m THEN m[id] ELSE ""

\* A load that returned nil: the scenario "each load followed by its
\* start-file event" now expects that event.
LoadReturned(h) ==
  [h EXCEPT !.inOrder = @ /\ h.expect = "L", !.expect = "S"]

\* fmt.Errorf("Unable to load %s", title)
LoadError(name) == "Unable to load " \o name

\* What a load names in its error: LoadFile its title, LoadPlaylist its path.
LoadName(th) == IF th.frame = "LoadPlaylist" THEN th.x ELSE th.title

\* A load that takes every result of its Call for a success.
LoadFailedNever(th) == FALSE

\* if err != nil { return fmt.Errorf(...) }
LoadFailed(th) == th.err

\* LoadFile: loadfile ... append-play, then addToMonitor(title).
LoadFileBegin(t, title) ==
  /\ Len(entries) < MaxLoads
  /\ StartH(t, Request([Enter("LoadFile") EXCEPT !.title = title], "Call",
                       "loadfile", "append-play", "Load_ret"),
            [hist EXCEPT !.inOrder = @ /\ hist.expect = "L",
                         !.atIssue = hist.reported])

\* LoadPlaylist: clearMonitor() when replacing, loadlist, then
\* addToMonitor("playlist entry").
LoadPlaylistBegin(t, replace) ==
  /\ Len(entries) < MaxLoads
  /\ CanStart(t)
  /\ thr' = [thr EXCEPT ![t] =
               Request([Enter("LoadPlaylist") EXCEPT !.title = PlaylistEntry,
                                                     !.flag = replace,
                                                     !.x = PlPath],
                       "Call", "loadlist",
                       IF replace THEN "replace" ELSE "append-play",
                       "Load_ret")]
  /\ monitorMap' = IF replace THEN EmptyMap ELSE monitorMap
  /\ hist' = [hist EXCEPT !.inOrder = FALSE, !.atIssue = hist.reported]
  /\ UNCHANGED <<connVars, playerVars, loop, mpvInfoChan, mpvErrorChan,
                 chanClosed, procVars, panicked, ui, mc, feedVars>>

\* The load's Call has returned.  On an error the load returns it; otherwise
\* addToMonitor's select: a non-blocking receive from mpvInfoChan (a closed
\* channel yields the zero value), else default.
LoadRet(t) ==
  /\ At(t, "Load_ret")
  /\ LET th == thr[t] IN
     IF LoadFailed(th)
     THEN /\ thr' = [thr EXCEPT ![t] = Finish(th, LoadError(LoadName(th)))]
          /\ hist' = [hist EXCEPT !.inOrder = FALSE]
          /\ UNCHANGED mpvInfoChan
     ELSE IF mpvInfoChan # <<>>
     THEN /\ thr' = [thr EXCEPT ![t] =
                       [th EXCEPT !.pc = "addToMonitor_ins", !.phase = "none",
                                  !.id = Head(mpvInfoChan)]]
          /\ mpvInfoChan' = Tail(mpvInfoChan)
          /\ UNCHANGED hist
     ELSE IF "mpvInfoChan" \in chanClosed
     THEN /\ thr' = [thr EXCEPT ![t] =
                       [th EXCEPT !.pc = "addToMonitor_ins", !.phase = "none",
                                  !.id = ZeroId]]
          /\ UNCHANGED <<mpvInfoChan, hist>>
     ELSE /\ thr' = [thr EXCEPT ![t] = Finish(th, "nil")]
          /\ hist' = LoadReturned(hist)
          /\ UNCHANGED mpvInfoChan
  /\ UNCHANGED <<connVars, playerVars, loop, monitorMap, mpvErrorChan,
                 chanClosed, procVars, panicked, ui, mc, feedVars>>

\* Ghost: the load that is registering (the last one the player accepted)
\* is paired with identifier id; the third component tells whether the
\* listener had taken id's start-file event before the load was called.
Matched(h, id) ==
  [h EXCEPT !.matches = Append(@, <<id, Len(entries), id \in h.atIssue>>)]

\* monitorMutex.Lock(); monitorMap[id] = name; unlock; the load returns nil.
AddToMonitorInsert(t) ==
  /\ ~panicked
  /\ thr[t].pc = "addToMonitor_ins"
  /\ monitorMap' = MapPut(monitorMap, thr[t].id, thr[t].title)
  /\ thr' = [thr EXCEPT ![t] = Finish(thr[t], "nil")]
  /\ hist' = LoadReturned(Matched(hist, thr[t].id))
  /\ UNCHANGED <<connVars, playerVars, loop, mpvInfoChan, mpvErrorChan,
                 chanClosed, procVars, panicked, ui, mc, feedVars>>

\* PlaylistClear: c.Call("playlist-clear"), then clearMonitor().
PlaylistClearBegin(t) ==
  StartH(t, Request(Enter("PlaylistClear"), "Call", "playlist-clear", "",
                    "PlaylistClear_ret"),
         [hist EXCEPT !.inOrder = FALSE])

PlaylistClearRet(t) ==
  /\ At(t, "PlaylistClear_ret")
  /\ monitorMap' = EmptyMap
  /\ thr' = [thr EXCEPT ![t] = Finish(thr[t], "")]
  /\ hist' = [hist EXCEPT !.cleared = TRUE,
                          !.preClear = hist.reported \cup DOMAIN monitorMap]
  /\ UNCHANGED <<connVars, playerVars, loop, mpvInfoChan, mpvErrorChan,
                 chanClosed, procVars, panicked, ui, mc, feedVars>>
\* ------------------------------------------------- MPVStop, StopUI
Bump(f, t) == [f EXCEPT ![t] = @ + 1]

\* MPVStop's first statement: if c.IsClosed() { return }; else c.Call("quit").
\* after is where the goroutine goes on when MPVStop returns.
MPVStopEnter(th, rm) ==
  IF closed
  THEN (IF th.frame = "StopUI"
        THEN [th EXCEPT !.pc = "StopUI_app", !.phase = "none"]
        ELSE Finish(th, ""))
  ELSE Request([th EXCEPT !.rm = rm], "Call", "quit", "", "MPVStop_ret")

MPVStopBegin(t, rm) ==
  /\ ui.removals[t] < MaxRemovals
  /\ hist.quits < MaxQuits
  /\ Start(t, MPVStopEnter(Enter("MPVStop"), rm))

\* c.Call("quit") has returned: if !rm { return }; os.Remove(sockPath).
MPVStopRet(t) ==
  /\ At(t, "MPVStop_ret")
  /\ ui' = IF thr[t].rm THEN [ui EXCEPT !.removals = Bump(@, t)] ELSE ui
  /\ thr' = [thr EXCEPT ![t] =
               IF thr[t].frame = "StopUI"
               THEN [thr[t] EXCEPT !.pc = "StopUI_app", !.phase = "none"]
               ELSE Finish(thr[t], "")]
  /\ UNCHANGED <<connVars, playerVars, loop, monVars, procVars, panicked, mc, feedVars, hist>>

\* confirmQuit's qfunc("y"): StopUI(false), on the UI goroutine.
ConfirmQuit(t) ==
  /\ t = "ui"
  /\ CanStart(t)
  /\ thr' = [thr EXCEPT ![t] =
               [Enter("StopUI") EXCEPT !.pc = "StopUI_close", !.flag = FALSE]]
  /\ ui' = [ui EXCEPT !.stopUI = Bump(@, t)]
  /\ UNCHANGED <<connVars, playerVars, loop, monVars, procVars, panicked,
                 mc, feedVars, hist>>

\* StopUI: close(detectClose).  Closing a closed channel panics.
StopUIClose(t) ==
  /\ ~panicked
  /\ thr[t].pc = "StopUI_close"
  /\ IF ui.detectClosed
     THEN /\ panicked' = TRUE
          /\ UNCHANGED <<ui, thr>>
     ELSE /\ ui' = [ui EXCEPT !.detectClosed = TRUE, !.closes = Bump(@, t)]
          /\ thr' = [thr EXCEPT ![t].pc = "StopUI_player"]
          /\ UNCHANGED panicked
  /\ UNCHANGED <<connVars, playerVars, loop, monVars, procVars, mc, feedVars,
                 hist>>

\* StopUI: StopPlayer(closeInstances).  StopPlayer is not among the sources;
\* of the code that is, it can reach the player only through MPVStop, with
\* either value of rm, or not at all.
StopPlayer(t) ==
  /\ ~panicked
  /\ thr[t].pc = "StopUI_player"
  /\ \/ \E rm \in BOOLEAN : thr' = [thr EXCEPT ![t] = MPVStopEnter(thr[t], rm)]
     \/ thr' = [thr EXCEPT ![t].pc = "StopUI_app"]
  /\ UNCHANGED <<connVars, playerVars, loop, monVars, procVars, panicked, ui, mc, feedVars, hist>>

\* StopUI: App.Stop(); the watcher goes on to remove the socket file.
StopUIApp(t) ==
  /\ ~panicked
  /\ thr[t].pc = "StopUI_app"
  /\ ui' = [ui EXCEPT !.appStops = Bump(@, t)]
  /\ thr' = [thr EXCEPT ![t] =
               IF t = "watcher" THEN [thr[t] EXCEPT !.pc = "Watcher_rm"]
               ELSE Finish(thr[t], "")]
  /\ UNCHANGED <<connVars, playerVars, loop, monVars, procVars, panicked, mc, feedVars, hist>>

\* --------------------------------------------------- detectMPVClose
\* lib.GetMPV().WaitUntilClosed() returns once the connection is closed.
WatcherWake(t) ==
  /\ ~panicked
  /\ t = "watcher"
  /\ thr[t].pc = "Watcher_wait"
  /\ closed
  /\ Local(t, [thr[t] EXCEPT !.pc = "Watcher_select"])

\* select { case _, ok := <-detectClose: if !ok { return }; default: }
\* Nothing is ever sent on detectClose: the case is taken only when it is
\* closed.  What the watcher does next: "return" or "StopUI".
WatcherSelectAlways(detectClosed) == "StopUI"
WatcherSelect(detectClosed) == IF detectClosed THEN "return" ELSE "StopUI"

\* The select, then the call of StopUI(true).
WatcherCheck(t) ==
  /\ ~panicked
  /\ t = "watcher"
  /\ thr[t].pc = "Watcher_select"
  /\ IF WatcherSelect(ui.detectClosed) = "return"
     THEN /\ thr' = [thr EXCEPT ![t] = Finish(thr[t], "quiet")]
          /\ UNCHANGED ui
     ELSE /\ thr' = [thr EXCEPT ![t] =
                       [thr[t] EXCEPT !.pc = "StopUI_close", !.frame = "StopUI",
                                      !.flag = TRUE]]
          /\ ui' = [ui EXCEPT !.stopUI = Bump(@, t)]
  /\ hist' = [hist EXCEPT !.watcherSaw =
                            IF ui.detectClosed THEN "closed" ELSE "open"]
  /\ UNCHANGED <<connVars, playerVars, loop, monVars, procVars, panicked, mc, feedVars>>

\* if socket, err := lib.ConfigPath("socket"); err == nil { os.Remove(socket) }
\* ConfigPath gave the same path to MPVStart, so it gives it again.
WatcherRemove(t) ==
  /\ ~panicked
  /\ t = "watcher"
  /\ thr[t].pc = "Watcher_rm"
  /\ ui' = [ui EXCEPT !.removals = Bump(@, t)]
  /\ thr' = [thr EXCEPT ![t] = Finish(thr[t], "MPV has exited")]
  /\ UNCHANGED <<connVars, playerVars, loop, monVars, procVars, panicked, mc, feedVars, hist>>
\* ------------------------------------------------ the player (mpv)
Event(name, id, err) == [name |-> name, id |-> id, err |-> err]

\* The next entry of the playlist starts: a start-file event with its id.
PlayerStartFile ==
  /\ ~panicked
  /\ player = "running" /\ ~streamEnd
  /\ playing = 0 /\ pending # <<>>
  /\ Len(events) < MaxEvents
  /\ playing' = Head(pending)
  /\ pending' = Tail(pending)
  /\ events' = Append(events, Event("start-file", Head(pending), NoErr))
  /\ UNCHANGED <<closed, player, streamEnd, entries, loopFile, loopPlaylist,
                 loop, monVars, procVars, thr, panicked, ui, mc, feedVars, hist>>

\* The entry being played ends: an end-file event, with or without an error.
PlayerEndFile ==
  /\ ~panicked
  /\ player = "running" /\ ~streamEnd
  /\ playing # 0
  /\ Len(events) < MaxEvents
  /\ \E e \in FileErrors :
       events' = Append(events, Event("end-file", playing, e))
  /\ playing' = 0
  /\ UNCHANGED <<closed, player, streamEnd, entries, pending, loopFile,
                 loopPlaylist, loop, monVars, procVars, thr, panicked,
                 ui, mc, feedVars, hist>>

\* The player dies on its own (it crashes, it is killed, its window is closed).
PlayerExit ==
  /\ ~panicked
  /\ player = "running"
  /\ \E p \in {"exiting", "exited"} : player' = p
  /\ UNCHANGED <<closed, streamEnd, events, entries, pending, playing,
                 loopFile, loopPlaylist, loop, monVars, procVars, thr, panicked, ui, mc, feedVars, hist>>

\* A player that quits in order sends a shutdown event first.
PlayerShutdownEvent ==
  /\ ~panicked
  /\ player = "exiting" /\ ~streamEnd
  /\ Len(events) < MaxEvents
  /\ events' = Append(events, Event("shutdown", NoId, NoErr))
  /\ player' = "exited"
  /\ UNCHANGED <<closed, streamEnd, entries, pending, playing, loopFile,
                 loopPlaylist, loop, monVars, procVars, thr, panicked,
                 ui, mc, feedVars, hist>>

\* The socket reaches end of file: mpvipc closes the connection and then the
\* events channel.
TransportEOF ==
  /\ ~panicked
  /\ player = "exited" /\ ~streamEnd
  /\ closed' = TRUE
  /\ streamEnd' = TRUE
  /\ UNCHANGED <<player, events, playerVars, loop, monVars, procVars, thr,
                 panicked, ui, mc, feedVars, hist>>

\* ------------------------------------------------- eventListener
LisAt(pc) == ~panicked /\ lis.pc = pc

\* c.Call("observe_property", 1, "shutdown"): the closed check ...
ListenerObserve ==
  /\ LisAt("observe")
  /\ lis' = [lis EXCEPT !.pc = IF closed THEN "recv" ELSE "observe_send"]
  /\ UNCHANGED <<connVars, playerVars, loop, monVars, mon, consumer,
                 received, thr, panicked, ui, mc, feedVars, hist>>

\* ... and the transport call.
ListenerObserveSend ==
  /\ LisAt("observe_send")
  /\ lis' = [lis EXCEPT !.pc = "recv"]
  /\ hist' = [hist EXCEPT !.lateCall = @ \/ closed]
  /\ UNCHANGED <<connVars, playerVars, loop, monVars, mon, consumer,
                 received, thr, panicked, ui, mc, feedVars>>

\* Where the listener goes on an event: to a send on one of the two queues,
\* to shutdown(), or back to the receive.
Dispatch(e) ==
  CASE e.name = "start-file" ->
         IF e.id # NoId THEN "sendInfo" ELSE "recv"
    [] e.name = "end-file" ->
         IF e.id # NoId /\ e.err # NoErr /\ e.err # "" THEN "sendErr"
         ELSE "recv"
    [] e.name = "shutdown" -> "sd_conn"
    [] OTHER -> "recv"

\* Ghost: the listener has taken event e off the stream.
Processed(h, e) ==
  CASE Dispatch(e) = "sendInfo" ->
         [h EXCEPT !.reported = @ \cup {e.id},
                   !.inOrder = @ /\ h.expect = "S",
                   !.expect = "L"]
    [] Dispatch(e) = "sendErr" -> [h EXCEPT !.errEnded = @ \cup {e.id}]
    [] OTHER -> h

\* case event, ok := <-events: the closed stream leads to shutdown().
ListenerRecv ==
  /\ LisAt("recv")
  /\ IF events # <<>>
     THEN /\ lis' = [pc |-> Dispatch(Head(events)), id |-> Head(events).id]
          /\ events' = Tail(events)
          /\ hist' = Processed(hist, Head(events))
     ELSE /\ streamEnd
          /\ lis' = [lis EXCEPT !.pc = "sd_conn"]
          /\ UNCHANGED <<events, hist>>
  /\ UNCHANGED <<closed, player, streamEnd, playerVars, loop, monVars, mon,
                 consumer, received, thr, panicked, ui, mc, feedVars>>
\* A send on a buffered channel of capacity ChanCap: it waits for room, and
\* it panics on a closed channel.
CanSend(ch, name) == Len(ch) < ChanCap \/ name \in chanClosed

\* mpvInfoChan <- int(val.(float64))
ListenerSendInfo ==
  /\ LisAt("sendInfo")
  /\ CanSend(mpvInfoChan, "mpvInfoChan")
  /\ IF "mpvInfoChan" \in chanClosed
     THEN panicked' = TRUE /\ UNCHANGED <<mpvInfoChan, lis>>
     ELSE /\ mpvInfoChan' = Append(mpvInfoChan, lis.id)
          /\ lis' = [lis EXCEPT !.pc = "recv"]
          /\ UNCHANGED panicked
  /\ UNCHANGED <<connVars, playerVars, loop, monitorMap, mpvErrorChan,
                 chanClosed, mon, consumer, received, thr, ui, mc, feedVars, hist>>

\* mpvErrorChan <- int(val.(float64))
ListenerSendErr ==
  /\ LisAt("sendErr")
  /\ CanSend(mpvErrorChan, "mpvErrorChan")
  /\ IF "mpvErrorChan" \in chanClosed
     THEN panicked' = TRUE /\ UNCHANGED <<mpvErrorChan, lis>>
     ELSE /\ mpvErrorChan' = Append(mpvErrorChan, lis.id)
          /\ lis' = [lis EXCEPT !.pc = "recv"]
          /\ UNCHANGED panicked
  /\ UNCHANGED <<connVars, playerVars, loop, monitorMap, mpvInfoChan,
                 chanClosed, mon, consumer, received, thr, ui, mc, feedVars, hist>>

\* shutdown(): c.conn.Close()
ShutdownConn ==
  /\ LisAt("sd_conn")
  /\ closed' = TRUE
  /\ lis' = [lis EXCEPT !.pc = "sd_MPVErrors"]
  /\ UNCHANGED <<player, streamEnd, events, playerVars, loop, monVars, mon,
                 consumer, received, thr, panicked, ui, mc, feedVars, hist>>

\* The order of shutdown()'s three closes: the channel closed at each label
\* and the label after it.
ShutdownStep(pc) ==
  CASE pc = "sd_MPVErrors" -> [ch |-> "MPVErrors", next |-> "sd_mpvInfoChan"]
    [] pc = "sd_mpvInfoChan" -> [ch |-> "mpvInfoChan", next |-> "sd_mpvErrorChan"]
    [] pc = "sd_mpvErrorChan" -> [ch |-> "mpvErrorChan", next |-> "sd_stop"]

\* shutdown(): close(MPVErrors); close(mpvInfoChan); close(mpvErrorChan)
ShutdownClose ==
  /\ ~panicked
  /\ lis.pc \in {"sd_MPVErrors", "sd_mpvInfoChan", "sd_mpvErrorChan"}
  /\ LET st == ShutdownStep(lis.pc) IN
     IF st.ch \in chanClosed
     THEN panicked' = TRUE /\ UNCHANGED <<chanClosed, lis, hist>>
     ELSE /\ chanClosed' = chanClosed \cup {st.ch}
          /\ lis' = [lis EXCEPT !.pc = st.next]
          /\ hist' = [hist EXCEPT !.closes = Append(@, st.ch)]
          /\ UNCHANGED panicked
  /\ UNCHANGED <<connVars, playerVars, loop, monitorMap, mpvInfoChan,
                 mpvErrorChan, mon, consumer, received, thr, ui, mc, feedVars>>

\* shutdown(): stopListening <- struct{}{}, then the listener returns.  The
\* send completes only while mpvipc's forwarder still receives on the channel.
ShutdownStop ==
  /\ LisAt("sd_stop")
  /\ lis' = [lis EXCEPT !.pc = "done"]
  /\ UNCHANGED <<connVars, playerVars, loop, monVars, mon, consumer,
                 received, thr, panicked, ui, mc, feedVars, hist>>

\* ---------------------------------------------------- monitorStart
\* case id, ok := <-mpvErrorChan: if !ok { return }
MonitorRecv ==
  /\ ~panicked
  /\ mon.pc = "recv"
  /\ IF mpvErrorChan # <<>>
     THEN /\ mon' = [mon EXCEPT !.pc = "lock", !.id = Head(mpvErrorChan)]
          /\ mpvErrorChan' = Tail(mpvErrorChan)
     ELSE /\ "mpvErrorChan" \in chanClosed
          /\ mon' = [mon EXCEPT !.pc = "done"]
          /\ UNCHANGED mpvErrorChan
  /\ UNCHANGED <<connVars, playerVars, loop, monitorMap, mpvInfoChan,
                 chanClosed, lis, consumer, received, thr, panicked,
                 ui, mc, feedVars, hist>>

\* monitorMutex.Lock(); title := monitorMap[id]; delete(monitorMap, id); unlock
MonitorTake ==
  /\ ~panicked
  /\ mon.pc = "lock"
  /\ mon' = [mon EXCEPT !.pc = "send", !.title = MapGet(monitorMap, mon.id)]
  /\ monitorMap' = MapDelete(monitorMap, mon.id)
  /\ UNCHANGED <<connVars, playerVars, loop, mpvInfoChan, mpvErrorChan,
                 chanClosed, lis, consumer, received, thr, panicked,
                 ui, mc, feedVars, hist>>

\* select { case MPVErrors <- title: default: }: MPVErrors is unbuffered, so
\* the send is taken only when the consumer is receiving; on a closed channel
\* it panics.
MonitorSend ==
  /\ ~panicked
  /\ mon.pc = "send"
  /\ IF "MPVErrors" \in chanClosed
     THEN panicked' = TRUE /\ UNCHANGED <<mon, consumer, received>>
     ELSE /\ mon' = [mon EXCEPT !.pc = "recv"]
          /\ IF consumer = "receiving"
             THEN /\ received' = Append(received, <<mon.id, mon.title>>)
                  /\ consumer' = "busy"
             ELSE UNCHANGED <<consumer, received>>
          /\ UNCHANGED panicked
  /\ UNCHANGED <<connVars, playerVars, loop, monVars, lis, thr, ui,
                 mc, feedVars, hist>>

\* The UI goroutine comes back to its receive on MPVErrors.
ConsumerReceive ==
  /\ ~panicked
  /\ consumer = "busy"
  /\ consumer' = "receiving"
  /\ UNCHANGED <<connVars, playerVars, loop, monVars, lis, mon, received,
                 thr, panicked, ui, mc, feedVars, hist>>
\* ------------------------------------------------------ MPVConnect
\* mc.availAt is the attempt from which the socket is connectable (0: never),
\* mc.execOk whether the executable can be started.
OpenSucceeds(attempt, availAt) == availAt # 0 /\ attempt >= availAt

\* for i := 0; i < *connretries; i++
RetryLeft(i, retries) == i < retries

\* After mpvcmd.Start(): the error returns at once.
AfterStartAlways(started) == "loop"
AfterStart(started) == IF started THEN "loop" ELSE "done"

\* if mpvexec { mpvcmd = exec.Command(...); err := mpvcmd.Start() ... }
MPVConnectStart ==
  /\ mc.pc = "start"
  /\ mc' = IF mc.mpvexec
           THEN [mc EXCEPT !.pc = AfterStart(mc.execOk),
                           !.spawns = @ + (IF mc.execOk THEN 1 ELSE 0),
                           !.result = IF mc.execOk THEN @
                                      ELSE "Error: Could not start mpv"]
           ELSE [mc EXCEPT !.pc = "loop"]
  /\ UNCHANGED <<connVars, playerVars, loop, monVars, procVars, thr, panicked, ui, hist,
                 feedVars>>

\* The loop's test, and conn.Open() when it passes.
MPVConnectOpen ==
  /\ mc.pc = "loop"
  /\ mc' = IF ~RetryLeft(mc.i, mc.retries)
           THEN [mc EXCEPT !.pc = "done",
                           !.result = "Error: Could not connect to socket"]
           ELSE IF OpenSucceeds(mc.attempts + 1, mc.availAt)
           THEN [mc EXCEPT !.pc = "done", !.attempts = @ + 1,
                           !.result = "connector"]
           ELSE [mc EXCEPT !.pc = "sleep", !.attempts = @ + 1]
  /\ UNCHANGED <<connVars, playerVars, loop, monVars, procVars, thr, panicked, ui, hist,
                 feedVars>>

\* time.Sleep(1 * time.Second); continue
MPVConnectSleep ==
  /\ mc.pc = "sleep"
  /\ mc' = [mc EXCEPT !.pc = "loop", !.sleeps = @ + 1, !.i = @ + 1]
  /\ UNCHANGED <<connVars, playerVars, loop, monVars, procVars, thr, panicked, ui, hist,
                 feedVars>>

\* ------------------------------------------------------ Client.Feed
\* Two goroutines call Feed.
FeedCallers == {"f1", "f2"}

IdleFeed == [pc |-> "idle", getmore |-> FALSE, page |-> ""]

\* Feed calls not yet returned.
FeedsRunning == Cardinality({g \in FeedCallers : feed[g].pc # "idle"})

\* Feed(getmore) is called.
FeedBegin(g, getmore) ==
  /\ feed[g].pc = "idle"
  /\ Len(requests) + FeedsRunning < MaxFeeds
  /\ feed' = [feed EXCEPT ![g] = [pc |-> "page", getmore |-> getmore,
                                  page |-> ""]]
  /\ UNCHANGED <<connVars, playerVars, loop, monVars, procVars, thr,
                 panicked, ui, mc, hist, feedPage, requests>>

\* if getmore { incFeedPage() } else { resetFeedPage() }: each holds
\* feedMutex for its one statement.
NextFeedPage(getmore, page) == IF getmore THEN page + 1 ELSE 1

FeedSetPage(g) ==
  /\ feed[g].pc = "page"
  /\ feedPage' = NextFeedPage(feed[g].getmore, feedPage)
  /\ feed' = [feed EXCEPT ![g].pc = "get"]
  /\ UNCHANGED <<connVars, playerVars, loop, monVars, procVars, thr,
                 panicked, ui, mc, hist, requests>>

\* strconv.Itoa
Itoa(n) == ToString(n)

\* getFeedPage(): the counter is read under feedMutex, taken anew.
FeedGetPage(g) ==
  /\ feed[g].pc = "get"
  /\ feed' = [feed EXCEPT ![g].pc = "request", ![g].page = Itoa(feedPage)]
  /\ UNCHANGED <<connVars, playerVars, loop, monVars, procVars, thr,
                 panicked, ui, mc, hist, feedPage, requests>>

\* query := "auth/feed?hl=en&page=" + getFeedPage()
FeedQuery(page) == "auth/feed?hl=en&page=" \o page

\* c.ClientRequest(ClientCtx(), query, GetToken()); whatever it answers,
\* Feed returns.
FeedRequest(g) ==
  /\ feed[g].pc = "request"
  /\ requests' = Append(requests, [getmore |-> feed[g].getmore,
                                   query |-> FeedQuery(feed[g].page)])
  /\ feed' = [feed EXCEPT ![g] = IdleFeed]
  /\ UNCHANGED <<connVars, playerVars, loop, monVars, procVars, thr,
                 panicked, ui, mc, hist, feedPage>>

\* ------------------------------------------------------------ Init
NoHistory ==
  [lateCall |-> FALSE, reported |-> {}, errEnded |-> {}, preClear |-> {},
   cleared |-> FALSE, inOrder |-> TRUE, expect |-> "L", watcherSaw |-> "",
   closes |-> <<>>, quits |-> 0, atIssue |-> {}, matches |-> <<>>]

ZeroCount == [t \in Threads |-> 0]

\* MPVConnect with its inputs: whether it starts mpv, whether mpv can be
\* started, the retry budget and the socket's behaviour.
ConnectInputs ==
  [pc : {"start"}, mpvexec : BOOLEAN, execOk : BOOLEAN,
   retries : 0..MaxRetries, availAt : 0..(MaxRetries + 1), i : {0},
   attempts : {0}, sleeps : {0}, spawns : {0}, result : {""}]

Connected ==
  [pc |-> "done", mpvexec |-> TRUE, execOk |-> TRUE, retries |-> 1,
   availAt |-> 1, i |-> 0, attempts |-> 1, sleeps |-> 0, spawns |-> 1,
   result |-> "connector"]

\* The state MPVStart leaves: the player runs, the connection is open, the
\* listener and the monitor have just been started.
Started ==
  /\ closed = FALSE
  /\ player = "running"
  /\ streamEnd = FALSE
  /\ events = <<>>
  /\ entries = <<>>
  /\ pending = <<>>
  /\ playing = 0
  /\ loopFile = "no"
  /\ loopPlaylist = "no"
  /\ loop = ""
  /\ monitorMap = EmptyMap
  /\ mpvInfoChan = <<>>
  /\ mpvErrorChan = <<>>
  /\ chanClosed = {}
  /\ lis = [pc |-> "observe", id |-> NoId]
  /\ mon = [pc |-> "recv", id |-> 0, title |-> ""]
  /\ consumer = "busy"
  /\ received = <<>>
  /\ panicked = FALSE
  /\ ui = [detectClosed |-> FALSE, stopUI |-> ZeroCount, closes |-> ZeroCount,
           removals |-> ZeroCount, appStops |-> ZeroCount]
  /\ hist = NoHistory
  /\ feedPage = 0
  /\ feed = [g \in FeedCallers |-> IdleFeed]
  /\ requests = <<>>

Init ==
  /\ Started
  /\ thr = [t \in Threads |-> IdleThread]
  /\ mc = Connected

InitUI ==
  /\ Started
  /\ thr = [t \in Threads |->
              IF t = "watcher" THEN [IdleThread EXCEPT !.pc = "Watcher_wait"]
              ELSE IdleThread]
  /\ mc = Connected

\* Before MPVStart: nothing runs yet but MPVConnect.
InitConnect ==
  /\ Started
  /\ thr = [t \in Threads |-> IdleThread]
  /\ mc \in ConnectInputs
\* ------------------------------------------------------------ Next
\* The two steps of a primitive, and the return of a finished operation.
Primitive == \E t \in Threads : PrimCheck(t) \/ PrimSend(t)

UiReturn == Return("ui")

Player == PlayerStartFile \/ PlayerEndFile

PlayerGone == PlayerExit \/ PlayerShutdownEvent \/ TransportEOF

ListenerStart == ListenerObserve \/ ListenerObserveSend

ListenerSends == ListenerSendInfo \/ ListenerSendErr

Shutdown == ShutdownConn \/ ShutdownClose \/ ShutdownStop

Monitor == MonitorRecv \/ MonitorTake \/ MonitorSend

LoadFiles ==
  \/ \E title \in Titles : LoadFileBegin("ui", title)
  \/ LoadRet("ui")
  \/ AddToMonitorInsert("ui")

LoadPlaylists == \E replace \in BOOLEAN : LoadPlaylistBegin("ui", replace)

Clear == PlaylistClearBegin("ui") \/ PlaylistClearRet("ui")

\* The playback monitor while the player runs: loads and clears by the UI
\* goroutine, the player's start-file and end-file events, the listener, the
\* monitor task and the consumer of MPVErrors.
Next ==
  \/ LoadFiles
  \/ Clear
  \/ Primitive
  \/ UiReturn
  \/ Player
  \/ ListenerStart
  \/ ListenerRecv
  \/ ListenerSends
  \/ Monitor
  \/ ConsumerReceive

Spec == Init /\ [][Next]_vars

Queries ==
  \/ \E o \in OneCallOps : OneCallBegin("ui", o)
  \/ OneCallRet("ui")
  \/ LoopTypeBegin("ui") \/ LoopTypeLf("ui") \/ LoopTypeLp("ui")
  \/ DurationBegin("ui") \/ Duration1("ui") \/ Duration2("ui")
  \/ PlaylistTitleBegin("ui") \/ PlaylistTitle1("ui") \/ PlaylistTitle2("ui")

Mutators ==
  \/ PlaylistPlayLatestBegin("ui") \/ PlayLatestCount("ui")
  \/ PlayLatestPlay("ui") \/ PlayLatestRet("ui")
  \/ CyclePausedBegin("ui") \/ CyclePausedEof("ui") \/ CyclePausedPaused("ui")
  \/ CyclePausedSeek("ui") \/ CyclePausedRet("ui")
  \/ CycleLoopBegin("ui") \/ CycleLoop2("ui") \/ CycleLoopRet("ui")

Stop == (\E rm \in BOOLEAN : MPVStopBegin("ui", rm)) \/ MPVStopRet("ui")

\* The Connector facade: every operation, called by the UI goroutine, while
\* the player may exit and the transport may close the connection under it.
NextCtl ==
  \/ Queries
  \/ Mutators
  \/ (\E title \in Titles : LoadFileBegin("ui", title))
  \/ LoadPlaylists
  \/ LoadRet("ui")
  \/ Clear
  \/ Stop
  \/ Primitive
  \/ UiReturn
  \/ PlayerExit
  \/ TransportEOF

SpecCtl == Init /\ [][NextCtl]_vars

StopUI == \E t \in Threads : StopUIClose(t) \/ StopPlayer(t) \/ StopUIApp(t)

Watcher == WatcherWake("watcher") \/ WatcherCheck("watcher") \/ WatcherRemove("watcher")

\* The lifecycle watcher and the user's quit.
NextUI ==
  \/ ConfirmQuit("ui")
  \/ StopUI
  \/ (\E t \in Threads : MPVStopRet(t))
  \/ Watcher
  \/ Primitive
  \/ UiReturn
  \/ PlayerGone
  \/ ListenerStart
  \/ ListenerRecv
  \/ Shutdown

SpecUI == InitUI /\ [][NextUI]_vars

NextConnect == MPVConnectStart \/ MPVConnectOpen \/ MPVConnectSleep

SpecConnect == InitConnect /\ [][NextConnect]_vars

\* The loads while the player reports its files and may go away: LoadFile and
\* LoadPlaylist by the UI goroutine, the listener queueing identifiers, the
\* player's exit and the transport's close.
NextLoad ==
  \/ LoadFiles
  \/ LoadPlaylists
  \/ Primitive
  \/ UiReturn
  \/ Player
  \/ ListenerStart
  \/ ListenerRecv
  \/ ListenerSends
  \/ PlayerExit
  \/ TransportEOF

SpecLoad == Init /\ [][NextLoad]_vars

\* MPVStop called again and again by the UI goroutine, while the player
\* takes the quit, sends its shutdown event or dies, and the transport closes
\* the connection.
NextStop ==
  \/ Stop
  \/ Primitive
  \/ UiReturn
  \/ PlayerGone

SpecStop == Init /\ [][NextStop]_vars

\* A caller's Connector.Call against the listener's shutdown: the player
\* quits in order, the listener takes the shutdown event and closes the
\* connection.  The transport does not close it here.
NextRace ==
  \/ OneCallBegin("ui", "Call")
  \/ OneCallRet("ui")
  \/ Primitive
  \/ UiReturn
  \/ PlayerExit
  \/ PlayerShutdownEvent
  \/ ListenerStart
  \/ ListenerRecv
  \/ Shutdown

SpecRace == Init /\ [][NextRace]_vars

\* The playback monitor up to the end of the run: loads by the UI goroutine,
\* the player's events, the player's exit, the listener with its shutdown,
\* the monitor task and the consumer of MPVErrors.
NextDown ==
  \/ LoadFiles
  \/ Primitive
  \/ UiReturn
  \/ Player
  \/ PlayerGone
  \/ ListenerStart
  \/ ListenerRecv
  \/ ListenerSends
  \/ Shutdown
  \/ Monitor
  \/ ConsumerReceive

SpecDown == Init /\ [][NextDown]_vars

\* The same, with every goroutine scheduled fairly: the listener, the
\* monitor task and the UI goroutine each go on running while they can.
FairDown ==
  /\ WF_vars(ListenerStart \/ ListenerRecv \/ ListenerSends \/ Shutdown)
  /\ WF_vars(Monitor)
  /\ WF_vars(LoadFiles \/ Primitive \/ UiReturn)

SpecDownFair == Init /\ [][NextDown]_vars /\ FairDown

\* Client.Feed called by two goroutines.
NextFeed ==
  \/ \E g \in FeedCallers, getmore \in BOOLEAN : FeedBegin(g, getmore)
  \/ \E g \in FeedCallers : FeedSetPage(g) \/ FeedGetPage(g) \/ FeedRequest(g)

SpecFeed == Init /\ [][NextFeed]_vars
\* =============================================================== claims

\* What each operation returns on a closed connection.
ClosedResult(th) ==
  LET o == th.frame IN
  CASE o \in {"Call", "Get", "Set"} -> "Connection closed"
    [] o \in {"LoadFile", "LoadPlaylist"} -> LoadError(LoadName(th))
    [] o \in {"IsPaused", "IsShuffle", "IsEOF", "IsIdle"} -> "false"
    [] o = "MediaType" -> "Audio"
    [] o \in {"TimePosition", "Duration", "PlaylistCount", "PlaylistPos"} -> "0"
    [] o = "PlaylistTitle" -> "-"
    [] OTHER -> ""

Quiescent ==
  /\ thr["ui"].pc \in {"idle", "done"}
  /\ lis.pc = "recv"
  /\ events = <<>>
  /\ mpvErrorChan = <<>>
  /\ mon.pc = "recv"

\* The map the specification describes: the title of its load for every
\* identifier a start-file event reported and no end-file error has ended.
ExpectedMap == [id \in hist.reported \ hist.errEnded |-> entries[id]]

\* C2: when every successful LoadFile was followed by its start-file event
\* (load, event, load, event, ...), the map holds exactly {identifier ->
\* title of its load} for the identifiers no end-file error has ended.
C2_MapHoldsLoadedTitles ==
  (hist.inOrder /\ hist.expect = "L" /\ Quiescent) => monitorMap = ExpectedMap

\* C3: on a fresh Connector, after LoadFile(T), the start-file event of its
\* entry and the end-file error for it, a consumer that was receiving has
\* received exactly T, and the map holds the identifier no more.
C3_ConsumerReceivesTitle ==
  (hist.inOrder /\ Len(entries) = 1 /\ received # <<>>) =>
    /\ received[1][2] = entries[received[1][1]]
    /\ received[1][1] \notin DOMAIN monitorMap

\* C4: the listener is never held by a full monitor queue: whenever it is at
\* a send on the identifier queue or on the error queue, there is room.
C4_ListenerNeverBlocks ==
  /\ ~(lis.pc = "sendInfo" /\ Len(mpvInfoChan) >= ChanCap)
  /\ ~(lis.pc = "sendErr" /\ Len(mpvErrorChan) >= ChanCap)

Total(f) == f["ui"] + f["watcher"]

\* C5: the watcher starts StopUI at most once and removes the socket file at
\* most once; when it saw the shutdown signal closed it does neither; and
\* when it saw the signal open and has finished, the run holds exactly one
\* StopUI by the watcher, one close of the signal, one App.Stop and one
\* removal of the socket file.
C5_WatcherTearsDownOnce ==
  /\ ui.stopUI["watcher"] <= 1
  /\ ui.removals["watcher"] <= 1
  /\ hist.watcherSaw = "closed" =>
       /\ ui.stopUI["watcher"] = 0
       /\ ui.closes["watcher"] = 0
       /\ ui.appStops["watcher"] = 0
       /\ ui.removals["watcher"] = 0
  /\ (thr["watcher"].pc = "done" /\ hist.watcherSaw = "open") =>
       /\ ui.stopUI["watcher"] = 1
       /\ Total(ui.closes) = 1
       /\ Total(ui.appStops) = 1
       /\ Total(ui.removals) = 1

\* C5 witness: the player exited on its own and the watcher has finished its
\* teardown.
C5_Witness ==
  /\ thr["watcher"].pc = "done"
  /\ hist.watcherSaw = "open"
  /\ ui.removals["watcher"] = 1
  /\ ui.stopUI["ui"] = 0

\* C6: with the socket never connectable, MPVConnect fails with the timeout
\* error after exactly N attempts and N-1 delays (none for N = 0).
C6_DelaysOnlyBetweenAttempts ==
  (mc.pc = "done" /\ mc.availAt = 0 /\ (mc.mpvexec => mc.execOk)) =>
    /\ mc.result = "Error: Could not connect to socket"
    /\ mc.attempts = mc.retries
    /\ mc.sleeps = IF mc.retries = 0 THEN 0 ELSE mc.retries - 1

\* C7: MPVConnect starts mpv once; with the socket connectable from attempt
\* k <= N it returns a Connector after exactly k attempts and makes no more;
\* when mpv cannot be started it returns the launch error without an attempt.
C7_ConnectOnFirstSuccess ==
  /\ mc.spawns <= 1
  /\ (mc.mpvexec /\ mc.execOk /\ mc.pc # "start") => mc.spawns = 1
  /\ (mc.mpvexec /\ ~mc.execOk) =>
       /\ mc.attempts = 0
       /\ mc.pc # "start" =>
            mc.pc = "done" /\ mc.result = "Error: Could not start mpv"
  /\ ((mc.mpvexec => mc.execOk) /\ mc.availAt \in 1..mc.retries) =>
       /\ mc.attempts <= mc.availAt
       /\ mc.pc = "done" =>
            mc.result = "connector" /\ mc.attempts = mc.availAt

\* C7 witness: budget 3, the socket connectable on the third attempt only.
C7_Witness ==
  /\ mc.pc = "done"
  /\ mc.mpvexec
  /\ mc.retries = 3
  /\ mc.availAt = 3
  /\ mc.attempts = 3
  /\ mc.result = "connector"
\* The rotation of the loop mode: none, loop-file, loop-playlist, none.
Rotation(l) ==
  CASE l = "" -> "loop-file"
    [] l = "loop-file" -> "loop-playlist"
    [] l = "loop-playlist" -> ""

\* The two player properties that stand for loop mode l.
LoopProps(l) ==
  CASE l = "" -> <<"no", "no">>
    [] l = "loop-file" -> <<"yes", "no">>
    [] l = "loop-playlist" -> <<"no", "yes">>

\* C8: each CycleLoop call moves the loop mode one place along none ->
\* loop-file -> loop-playlist -> none (so three calls from none return to
\* none); when its two writes were accepted the player's properties stand
\* for the new mode; and at every point, between the two writes too, the
\* player's loop-file and loop-playlist are never both "yes".
C8_CycleLoopRotates ==
  /\ ~(loopFile = "yes" /\ loopPlaylist = "yes")
  /\ \A t \in Threads :
       thr[t].frame = "CycleLoop" =>
         /\ loop = Rotation(thr[t].x)
         /\ (thr[t].pc = "done" /\ ~thr[t].flag) =>
              <<loopFile, loopPlaylist>> = LoopProps(loop)

\* C8 witness: the third call, from loop-playlist back to none, has returned
\* with both writes accepted.
C8_Witness ==
  /\ thr["ui"].pc = "done"
  /\ thr["ui"].frame = "CycleLoop"
  /\ thr["ui"].x = "loop-playlist"
  /\ ~thr["ui"].flag
  /\ loop = ""
  /\ <<loopFile, loopPlaylist>> = <<"no", "no">>

IsSeekOrToggle(c) == c \in {SeekToStart, TogglePause}

\* C9: CyclePaused issues the seek to the start and then one pause toggle
\* when IsEOF and IsPaused both answered true, and one pause toggle alone
\* otherwise (a query that failed, or was not asked, counts as false).
C9_SeekOnlyAtEofPaused ==
  \A t \in Threads :
    (thr[t].pc = "done" /\ thr[t].frame = "CyclePaused") =>
      SelectSeq(thr[t].issued, IsSeekOrToggle) =
        IF thr[t].eof = "true" /\ thr[t].paused = "true"
        THEN <<SeekToStart, TogglePause>>
        ELSE <<TogglePause>>

\* C9 witness: both queries answered true and the seek went out before the
\* toggle.
C9_Witness ==
  /\ thr["ui"].pc = "done"
  /\ thr["ui"].frame = "CyclePaused"
  /\ thr["ui"].eof = "true"
  /\ thr["ui"].paused = "true"
  /\ SelectSeq(thr["ui"].tsent, IsSeekOrToggle) = <<SeekToStart, TogglePause>>

\* C10: once PlaylistClear has returned, the map holds no entry for an
\* identifier that was reported or registered before the clear.
C10_ClearIsFinal ==
  hist.cleared => DOMAIN monitorMap \cap hist.preClear = {}

\* C11: the step in which a load learns the result of its transport call:
\* when the call erred (or the connection was closed) the load returns the
\* error naming its title or path, and that step adds no map entry and takes
\* no identifier off the queue; otherwise it goes on to register, or returns
\* nil.  nil is returned on no other path.
C11_FailedLoadRegistersNothing ==
  [][\A t \in Threads :
       (thr[t].pc = "Load_ret" /\ thr[t].phase = "ret" /\ thr'[t] # thr[t]) =>
         IF thr[t].err
         THEN /\ thr'[t].pc = "done"
              /\ thr'[t].result = LoadError(LoadName(thr[t]))
              /\ monitorMap' = monitorMap
              /\ mpvInfoChan' = mpvInfoChan
         ELSE \/ thr'[t].pc = "addToMonitor_ins"
              \/ thr'[t].pc = "done" /\ thr'[t].result = "nil"]_vars

\* C11 witness: a LoadFile whose loadfile reached the transport and was
\* refused has returned its error while an identifier waits in the queue.
C11_Witness ==
  /\ thr["ui"].pc = "done"
  /\ thr["ui"].frame = "LoadFile"
  /\ thr["ui"].tsent = <<"loadfile">>
  /\ thr["ui"].result = LoadError(thr["ui"].title)
  /\ mpvInfoChan # <<>>
  /\ monitorMap = EmptyMap

\* C12: an MPVStop that found the connection open sends one quit and removes
\* the socket file exactly when rm is true; one that found it closed sends
\* nothing and removes nothing; and over any number of MPVStop calls at most
\* one quit reaches the transport.
C12_StopQuitsOnce ==
  /\ hist.quits <= 1
  /\ (thr["ui"].pc = "done" /\ thr["ui"].frame = "MPVStop") =>
       IF thr["ui"].startedClosed
       THEN thr["ui"].tsent = <<>> /\ ui.removals["ui"] = 0
       ELSE /\ thr["ui"].issued = <<"quit">>
            /\ thr["ui"].rm => ui.removals["ui"] >= 1

\* The state queries, and the default the specification gives each.
StateQueries ==
  {"IsPaused", "IsShuffle", "IsEOF", "IsIdle", "MediaType", "LoopType",
   "TimePosition", "Duration", "PlaylistCount", "PlaylistPos",
   "PlaylistTitle", "PlaylistData"}

SafeDefault(o) ==
  CASE o \in {"IsPaused", "IsShuffle", "IsEOF", "IsIdle"} -> "false"
    [] o \in {"TimePosition", "Duration", "PlaylistCount", "PlaylistPos"} -> "0"
    [] o \in {"LoopType", "PlaylistTitle", "PlaylistData"} -> ""
    [] o = "MediaType" -> "Audio"

\* C13: a state query that returns on an error of its primitive returns its
\* default: false, 0, the empty string or "Audio".
C13_QueriesDefaultOnError ==
  [][\A t \in Threads :
       (/\ thr[t].frame \in StateQueries
        /\ thr[t].phase = "ret"
        /\ thr[t].err
        /\ thr'[t].pc = "done") =>
         thr'[t].result = SafeDefault(thr[t].frame)]_vars

\* C14: no transport call is issued on a connection already marked closed,
\* however a caller's operation and the listener's shutdown interleave.
C14_NoCallAfterClose == ~hist.lateCall

\* C15: over the user's quit and the watcher together StopUI is started at
\* most once and the shutdown signal is closed at most once: no goroutine
\* closes it again (which panics).
C15_TeardownNeverOverlaps ==
  /\ Total(ui.stopUI) <= 1
  /\ Total(ui.closes) <= 1
  /\ ~panicked

\* C16: identifiers and titles are matched in order (a later match pairs a
\* later identifier with a later load), and an identifier is never paired
\* with a load that was called after its start-file event was delivered.
C16_MatchingIsCausal ==
  /\ \A i, j \in DOMAIN hist.matches :
       i < j => /\ hist.matches[i][1] < hist.matches[j][1]
                /\ hist.matches[i][2] < hist.matches[j][2]
  /\ \A k \in DOMAIN hist.matches : ~hist.matches[k][3]

\* C17: the monitor task is never at its send on MPVErrors when the
\* listener's shutdown has closed that channel.
C17_MonitorNeverSendsOnClosed ==
  ~(mon.pc = "send" /\ "MPVErrors" \in chanClosed)

\* C18: every key of the map is an identifier that a start-file event the
\* listener processed has carried.
C18_KeysWereReported == DOMAIN monitorMap \subseteq hist.reported

\* The listener has returned from shutdown().
ListenerDone == lis.pc = "done"

\* What shutdown() leaves: the connection closed and each of the three
\* channels closed once.
ShutdownComplete ==
  /\ closed
  /\ chanClosed = {"MPVErrors", "mpvInfoChan", "mpvErrorChan"}
  /\ Len(hist.closes) = 3

\* C19: once the listener has run shutdown(), the connection is closed and
\* each of the three channels has been closed exactly once; and, every
\* goroutine being scheduled fairly, the monitor task then empties the error
\* queue and terminates.
C19_ShutdownEndsMonitor ==
  /\ [](ListenerDone => ShutdownComplete)
  /\ (ListenerDone ~> (mon.pc = "done" /\ mpvErrorChan = <<>>))

\* The page number a feed query asks for.
PageOf(query) == CHOOSE n \in 0..MaxFeeds : FeedQuery(Itoa(n)) = query

\* C20: Feed(getmore=false) always requests page 1, and each
\* Feed(getmore=true) requests exactly the page after the one the previous
\* Feed request asked for, so no page is skipped or requested twice, also
\* when two Feed calls run concurrently.
C20_FeedPagesAreConsecutive ==
  \A k \in 1..Len(requests) :
    IF ~requests[k].getmore
    THEN requests[k].query = FeedQuery(Itoa(1))
    ELSE k > 1 =>
           requests[k].query = FeedQuery(Itoa(PageOf(requests[k - 1].query) + 1))
====
